---- MODULE Spec2Model ----
(***************************************************************************)
(* Chunk streaming and generation of rts-lethal-empire-bevy.               *)
(*                                                                         *)
(* The terrain systems of src/terrain/systems.rs run once per frame in the *)
(* Update schedule, in no fixed order (src/terrain/mod.rs:57-67,           *)
(* src/terrain/tiles/mod.rs:25-29, src/terrain/resources/mod.rs:26-30).    *)
(* What a system does through `Commands` is deferred: it is applied to the *)
(* world when the schedule ends (Flush).  What it does through ResMut or   *)
(* Query<&mut ..> is immediate.  Generation tasks run on the               *)
(* AsyncComputeTaskPool and finish at any time.                            *)
(*                                                                         *)
(* The world is unbounded; the model follows the chunk coordinates of      *)
(* Tracked.  The systems treat every coordinate on its own, so what        *)
(* happens to a tracked coordinate does not depend on the others.          *)
(***************************************************************************)
EXTENDS Integers, FiniteSets, Sequences, TLC

\* ---------------------------------------------------------------- constants

SPAWN_CHUNK_RADIUS == 8
LOAD_CHUNK_RADIUS == 3
CHUNK_SIZE == 32
CHUNK_TILE_SIZE == 16
QUOTA_INITIAL == 10
RESOURCE_INITIAL == 5

\* ------------------------------------------------------------------- bounds

\* Entity ids the model can hand out.
MaxEntities == 3
\* Dispatch and install counters stop counting here.
MaxCount == 2

\* The helper functions are evaluated on chunks -MaxChunk .. MaxChunk.
MaxChunk == 2

\* Chunk coordinates the model follows.
Tracked == { <<0, 0>>, <<10, 10>> }

\* World positions (x, z) the camera can take: chunks (0,0), (2,2), (-4,-4).
CameraPositions == { <<0, 0>>, <<1024, 1100>>, <<-2048, -2100>> }

EntityIds == 1..MaxEntities
NoEntity == 0
NoCoord == <<"none">>
NoData == <<"none">>
NoCall == [ fn |-> "none", args |-> << >> ]
NoSampler == [ pc |-> "idle" ]

Systems == { "spawn", "load", "unload", "gen_tile", "handle_tile",
             "gen_res", "handle_res" }

VARIABLES
    camera,            \* Transform.translation.xz() of the camera
    chunks,            \* ChunkManager.chunks : coordinate -> entity
    loaded,            \* ChunkManager.loaded
    nextEntity,        \* next entity id of the world
    chunkCoord,        \* component ChunkCoord, per entity
    visibility,        \* component Visibility, per entity
    tileMapping,       \* component TileMapping, per entity
    resourceMapping,   \* component ResourceMapping, per entity
    computeTile,       \* component ComputeTileMapping present, per entity
    computeResource,   \* component ComputeResourceMapping present, per entity
    tileTask,          \* state of the entity's tile task in the pool
    resourceTask,      \* state of the entity's resource task in the pool
    commands,          \* deferred commands of the running frame
    ran,               \* systems that have run in the running frame
    tileDispatches,    \* per coordinate: tile tasks dispatched so far
    resourceDispatches,\* per coordinate: resource tasks dispatched so far
    tileInstalls,      \* per entity: TileMapping inserts so far
    resourceInstalls,  \* per entity: ResourceMapping inserts so far
    loadCount,         \* per coordinate: times the load pass has shown it
    handledTiles,      \* component ChunkHandledTiles present, per entity
    handledResources,  \* component ChunkHandledResources present, per entity
    meshInserts,       \* per entity: mesh and material inserts so far
    propSpawns,        \* per entity: times its props were spawned so far
    resourceCount,     \* ResourceCount: the 32 bits of the u32, read as an i32
    quota,             \* Quota
    quotaSuccess,      \* QuotaSuccess
    buildingValid,     \* BuildingToolValid of the building tool
    buildingCost,      \* BUILDING_COST of the build
    buildings,         \* buildings the tool has queued so far
    frameInput,        \* click, timer and tile under the tool in this frame
    buildPc,           \* "running", or "panic" after an overflow check failed
    unitAlive,         \* the unit entity exists
    unitPos,           \* Transform.translation of the unit, along its route
    waypoints,         \* component UnitWaypoints of the unit
    unitActions,       \* component UnitWaypointActions of the unit, id 0: absent
    unitCommands,      \* deferred commands of the unit systems, as applied
    reached,           \* waypoints popped so far
    executed,          \* per waypoint: times its actions were executed
    call,              \* the call of a helper function under evaluation
    result,            \* what that call returned
    sampler,           \* a PoissonDiscSampler and the locals of its sample()
    rerun,             \* a second sample() of a sampler with the same fields
    tape               \* what the seeded random stream has yielded so far

world == << nextEntity, chunkCoord, visibility, tileMapping, resourceMapping,
            computeTile, computeResource >>
manager == << chunks, loaded >>
tasks == << tileTask, resourceTask >>
history == << tileDispatches, resourceDispatches, tileInstalls,
             resourceInstalls, loadCount >>
rendering == << handledTiles, handledResources, meshInserts, propSpawns >>
sampling == << sampler, rerun, tape >>
economy == << resourceCount, quota, quotaSuccess, buildingValid, buildingCost,
             buildings, frameInput, buildPc >>
units == << unitAlive, unitPos, waypoints, unitActions, unitCommands, reached,
           executed >>
probe == << call, result, sampling, rendering, economy, units >>
vars == << camera, manager, world, tasks, commands, ran, history, probe >>

\* ------------------------------------------------------------ pure helpers

Abs(n) == IF n < 0 THEN -n ELSE n
Max(a, b) == IF a > b THEN a ELSE b
Min(a, b) == IF a <= b THEN a ELSE b
Bump(n) == IF n < MaxCount THEN n + 1 ELSE n

\* f32 -> i32 conversion of a quotient: truncation toward zero.
TruncDiv(a, b) == IF a >= 0 THEN a \div b ELSE -((-a) \div b)

\* The conversion without its correction for negative positions.
world_pos_to_chunk_axis_Truncating(p) ==
    LET chunk_size == CHUNK_SIZE * CHUNK_TILE_SIZE
        world_pos == 2 * p + chunk_size
    IN  TruncDiv(world_pos, 2 * chunk_size)

\* Twice the world position, so that chunk_size / 2.0 stays an integer.
world_pos_to_chunk_axis(p) ==
    LET chunk_size == CHUNK_SIZE * CHUNK_TILE_SIZE
        world_pos == 2 * p + chunk_size
        delta == IF world_pos < 0 THEN 1 ELSE 0
    IN  TruncDiv(world_pos, 2 * chunk_size) - delta

world_pos_to_chunk_coord(pos) ==
    << world_pos_to_chunk_axis(pos[1]), world_pos_to_chunk_axis(pos[2]) >>

\* f32 -> u32 conversion of a quotient: truncation toward zero, negative
\* values give 0.
TruncDivU32(a, b) == IF a <= 0 THEN 0 ELSE a \div b

chunk_coord_to_world_axis(c) == c * (CHUNK_SIZE * CHUNK_TILE_SIZE)

chunk_coord_to_world_pos(chunk_coord) ==
    << chunk_coord_to_world_axis(chunk_coord[1]),
       chunk_coord_to_world_axis(chunk_coord[2]) >>

\* Twice the offset from the chunk's start, over twice the tile size.
world_pos_to_tile_axis(p) ==
    LET chunk_coord == world_pos_to_chunk_axis(p)
        chunk_pos == chunk_coord_to_world_axis(chunk_coord)
        chunk_start == 2 * chunk_pos - CHUNK_SIZE * CHUNK_TILE_SIZE
        offset == 2 * p - chunk_start
    IN  TruncDivU32(offset, 2 * CHUNK_TILE_SIZE)

world_pos_to_tile_coord(pos) ==
    << world_pos_to_tile_axis(pos[1]), world_pos_to_tile_axis(pos[2]) >>

\* The remainder taken with `%`, whose sign is the dividend's.
global_coord_to_tile_axis_Rem(g) ==
    LET coord == g + CHUNK_SIZE \div 2
    IN  IF coord >= 0 THEN coord % CHUNK_SIZE ELSE -((-coord) % CHUNK_SIZE)

\* coord.rem_euclid(size): never negative, so as_uvec2 keeps its value.
global_coord_to_tile_axis(g) ==
    LET coord == g + CHUNK_SIZE \div 2
    IN  coord % CHUNK_SIZE

global_coord_to_tile_coord(global_coord) ==
    << global_coord_to_tile_axis(global_coord[1]),
       global_coord_to_tile_axis(global_coord[2]) >>

tile_coord_to_global_axis(t, c) == c * CHUNK_SIZE + t - CHUNK_SIZE \div 2

tile_coord_to_global_coord(tile_coord, chunk_coord) ==
    << tile_coord_to_global_axis(tile_coord[1], chunk_coord[1]),
       tile_coord_to_global_axis(tile_coord[2], chunk_coord[2]) >>

global_coord_to_chunk_axis(g) ==
    LET tile_coord == global_coord_to_tile_axis(g)
    IN  TruncDiv(g + CHUNK_SIZE \div 2 - tile_coord, CHUNK_SIZE)

global_coord_to_chunk_coord(global_coord) ==
    << global_coord_to_chunk_axis(global_coord[1]),
       global_coord_to_chunk_axis(global_coord[2]) >>

\* The helper functions with their size parameters, one axis at a time.
\* Positions and tile sizes are whole numbers and tile sizes are even, so
\* that every half the functions take is a whole number.

\* The remainder taken with `%`, whose sign is the dividend's.
global_coord_to_tile_Rem(g, size) ==
    LET coord == g + size \div 2
    IN  IF coord >= 0 THEN coord % size ELSE -((-coord) % size)

\* (global + size / 2).rem_euclid(size)
global_coord_to_tile(g, size) ==
    LET coord == g + size \div 2
    IN  coord % size

\* The conversion without its correction for negative positions.
world_pos_to_chunk_Truncating(p, size, tile_size) ==
    LET chunk_size == size * tile_size
        world_pos == p + chunk_size \div 2
    IN  TruncDiv(world_pos, chunk_size)

world_pos_to_chunk(p, size, tile_size) ==
    LET chunk_size == size * tile_size
        world_pos == p + chunk_size \div 2
        delta == IF world_pos < 0 THEN 1 ELSE 0
    IN  TruncDiv(world_pos, chunk_size) - delta

chunk_coord_to_world(c, size, tile_size) == c * (size * tile_size)

world_pos_to_tile(p, size, tile_size) ==
    LET chunk_coord == world_pos_to_chunk(p, size, tile_size)
        chunk_pos == chunk_coord_to_world(chunk_coord, size, tile_size)
        chunk_start == chunk_pos - (size * tile_size) \div 2
        offset == p - chunk_start
    IN  TruncDivU32(offset, tile_size)

tile_coord_to_global(t, c, size) == c * size + t - size \div 2

world_pos_to_global(p, size, tile_size) ==
    LET chunk_coord == world_pos_to_chunk(p, size, tile_size)
        coord == world_pos_to_tile(p, size, tile_size)
    IN  tile_coord_to_global(coord, chunk_coord, size)

\* (global + size / 2 - tile) / size
global_coord_to_chunk(g, size) ==
    TruncDiv(g + size \div 2 - global_coord_to_tile(g, size), size)

\* The tile's world position taken from its chunk alone, without the offset
\* of the tile in the chunk.
global_coord_to_world_ChunkOnly(g, size, tile_size) ==
    chunk_coord_to_world(global_coord_to_chunk(g, size), size, tile_size)

global_coord_to_world(g, size, tile_size) ==
    chunk_coord_to_world(global_coord_to_chunk(g, size), size, tile_size)
        + ((global_coord_to_tile(g, size) - size \div 2) * tile_size
               + tile_size \div 2)

snap_to_tile(p, size, tile_size) ==
    global_coord_to_world(world_pos_to_global(p, size, tile_size), size, tile_size)

\* The index taken column by column: the row length swapped for the
\* column length.
tile_coord_to_index_ColumnMajor(tile_coord, size) ==
    tile_coord[1] * size[2] + tile_coord[2]

\* Top left is (0, 0); size is (x, y).
index_to_tile_coord(index, size) == << index % size[1], index \div size[1] >>

tile_coord_to_index(tile_coord, size) ==
    tile_coord[2] * size[1] + tile_coord[1]

\* Half the size taken as a fraction (size / 2.0) in place of the whole
\* size / 2.
tile_coord_to_world_off_HalfFraction(t, size, tile_size) ==
    ((2 * t - size) * tile_size) \div 2 + tile_size \div 2

tile_coord_to_world_off(t, size, tile_size) ==
    (t - size \div 2) * tile_size + tile_size \div 2

\* (*coord - **c).abs().max_element()
ChebyshevDistance(a, b) == Max(Abs(a[1] - b[1]), Abs(a[2] - b[2]))

\* The loops written with `..` for `..=`: the upper end is left out.
InRange_Exclusive(c, coord, r) ==
    /\ c[2] - r <= coord[2] /\ coord[2] < c[2] + r
    /\ c[1] - r <= coord[1] /\ coord[1] < c[1] + r

\* The coordinates the nested loops y, x in c-r ..= c+r visit.
InRange(c, coord, r) ==
    /\ c[2] - r <= coord[2] /\ coord[2] <= c[2] + r
    /\ c[1] - r <= coord[1] /\ coord[1] <= c[1] + r

\* Loop order of the nested loops: y outside, x inside.
ScanBefore(a, b) == a[2] < b[2] \/ (a[2] = b[2] /\ a[1] < b[1])
ScanRank(coord, S) == Cardinality({ d \in S : ScanBefore(d, coord) })

\* ChunkManager
contains(coord) == chunks[coord] # NoEntity
is_loaded(coord) == coord \in loaded

\* out_range comparing with >= for >, then missing the chunks two past it.
out_range_Beyond(coord, radius) ==
    { c \in loaded : ChebyshevDistance(coord, c) > radius + 1 }

\* out_range with the comparison turned round.
out_range_Flipped(coord, radius) ==
    { c \in loaded : ChebyshevDistance(coord, c) < radius }

out_range(coord, radius) ==
    { c \in loaded : ChebyshevDistance(coord, c) > radius }

\* A generator that draws from state shared between the chunks (a counter
\* or a random number generator that moves on with every chunk created).
TerrainGenerate_SharedState(coord) == << "tiles", coord, nextEntity >>

\* What the generators return for a chunk: a function of the coordinate
\* (and of the seed and the chunk size, which never change).
TerrainGenerate(coord) == << "tiles", coord >>
ResourceGenerate(coord) == << "resources", coord >>

Cmd(op, e, arg) == [ op |-> op, e |-> e, arg |-> arg ]

\* ------------------------------------------------------------------- Init

\* No chunk has a mesh or props.
Unrendered ==
    /\ handledTiles = [ e \in EntityIds |-> FALSE ]
    /\ handledResources = [ e \in EntityIds |-> FALSE ]
    /\ meshInserts = [ e \in EntityIds |-> 0 ]
    /\ propSpawns = [ e \in EntityIds |-> 0 ]

NoInput == [ click |-> FALSE, finished |-> FALSE, free |-> FALSE ]

\* QuotaPlugin and the building tool after construction, with no input.
EconomyIdle ==
    /\ resourceCount = RESOURCE_INITIAL
    /\ quota = QUOTA_INITIAL
    /\ quotaSuccess = FALSE
    /\ buildingValid = FALSE
    /\ buildingCost = 1
    /\ buildings = 0
    /\ frameInput = NoInput
    /\ buildPc = "running"

\* Bounds of a unit's route: its waypoints and the positions along it.
MaxRoute == 2
MaxUnitPos == 3

NoActions == [ id |-> 0, actions |-> << >> ]

\* No unit has been spawned.
UnitsIdle ==
    /\ unitAlive = FALSE
    /\ unitPos = 0
    /\ waypoints = << >>
    /\ unitActions = NoActions
    /\ unitCommands = << >>
    /\ reached = 0
    /\ executed = [ w \in 1..MaxRoute |-> 0 ]

\* The chunk manager and the world after construction.
WorldInit ==
    /\ camera = << 0, 0 >>
    /\ chunks = [ c \in Tracked |-> NoEntity ]
    /\ loaded = {}
    /\ nextEntity = 1
    /\ chunkCoord = [ e \in EntityIds |-> NoCoord ]
    /\ visibility = [ e \in EntityIds |-> "None" ]
    /\ tileMapping = [ e \in EntityIds |-> NoData ]
    /\ resourceMapping = [ e \in EntityIds |-> NoData ]
    /\ computeTile = [ e \in EntityIds |-> FALSE ]
    /\ computeResource = [ e \in EntityIds |-> FALSE ]
    /\ tileTask = [ e \in EntityIds |-> "none" ]
    /\ resourceTask = [ e \in EntityIds |-> "none" ]
    /\ commands = {}
    /\ ran = {}
    /\ tileDispatches = [ c \in Tracked |-> 0 ]
    /\ resourceDispatches = [ c \in Tracked |-> 0 ]
    /\ tileInstalls = [ e \in EntityIds |-> 0 ]
    /\ resourceInstalls = [ e \in EntityIds |-> 0 ]
    /\ loadCount = [ c \in Tracked |-> 0 ]

\* The terrain plugin after construction.
TerrainInit ==
    /\ WorldInit
    /\ Unrendered
    /\ EconomyIdle
    /\ UnitsIdle

\* No sampler is running.
SamplerIdle ==
    /\ sampler = NoSampler
    /\ rerun = NoSampler
    /\ tape = << >>

Init ==
    /\ TerrainInit
    /\ call = NoCall
    /\ result = NoData
    /\ SamplerIdle


\* ------------------------------------------------------ the ECS world

\* Query<&mut Visibility, With<ChunkCoord>>::get_mut(entity) is Ok
HasVisibility(e) ==
    /\ e \in EntityIds
    /\ visibility[e] # "None"
    /\ chunkCoord[e] # NoCoord

\* The query without its Without<ComputeTileMapping> filter.
TileQuery_NoPendingGuard ==
    { e \in EntityIds : chunkCoord[e] # NoCoord /\ tileMapping[e] = NoData }

\* The query without its Without<TileMapping> filter.
TileQuery_NoInstalledGuard ==
    { e \in EntityIds : chunkCoord[e] # NoCoord /\ ~computeTile[e] }

\* The query picking only chunks that are shown.
TileQuery_OnlyVisible ==
    { e \in EntityIds : /\ chunkCoord[e] # NoCoord
                        /\ visibility[e] = "Visible"
                        /\ tileMapping[e] = NoData
                        /\ ~computeTile[e] }

\* The query waiting for the chunk's resources: With<ResourceMapping>.
TileQuery_AfterResources ==
    { e \in EntityIds : /\ chunkCoord[e] # NoCoord
                        /\ resourceMapping[e] # NoData
                        /\ tileMapping[e] = NoData
                        /\ ~computeTile[e] }

\* Query<(Entity, &ChunkCoord), (Without<TileMapping>, Without<ComputeTileMapping>)>
TileQuery ==
    { e \in EntityIds : /\ chunkCoord[e] # NoCoord
                        /\ tileMapping[e] = NoData
                        /\ ~computeTile[e] }

\* Query<(Entity, &ChunkCoord), (Without<ResourceMapping>, Without<ComputeResourceMapping>)>
ResourceQuery ==
    { e \in EntityIds : /\ chunkCoord[e] # NoCoord
                        /\ resourceMapping[e] = NoData
                        /\ ~computeResource[e] }

Run(s) ==
    /\ s \notin ran
    /\ ran' = ran \cup { s }

\* ------------------------------------------------- streaming controller

\* The spawn pass without the bounds of its loops: every unknown coordinate.
SpawnCoords_NoRadius(c0) ==
    { coord \in Tracked : ~contains(coord) }

\* The spawn pass without its `!chunk_manager.contains(&coord)` test.
SpawnCoords_NoContains(c0) ==
    { coord \in Tracked : InRange(c0, coord, SPAWN_CHUNK_RADIUS) }

\* The coordinates for which the spawn pass creates a chunk.
SpawnCoords(c0) ==
    { coord \in Tracked : /\ InRange(c0, coord, SPAWN_CHUNK_RADIUS)
                          /\ ~contains(coord) }

\* commands.spawn_empty().id(): the ids are handed out in loop order.
SpawnedEntity(coord, c0) == nextEntity + ScanRank(coord, SpawnCoords(c0))
FreshCoords(c0) ==
    { coord \in SpawnCoords(c0) : SpawnedEntity(coord, c0) <= MaxEntities }

\* A registry that forgets the chunks outside the spawn radius.
insert_chunks_Evict(c0) ==
    [ coord \in Tracked |->
        IF coord \in FreshCoords(c0) THEN SpawnedEntity(coord, c0)
        ELSE IF InRange(c0, coord, SPAWN_CHUNK_RADIUS) THEN chunks[coord]
        ELSE NoEntity ]

\* The registry after chunk_manager.insert(coord, chunk_entity) for each.
insert_chunks(c0) ==
    [ coord \in Tracked |->
        IF coord \in FreshCoords(c0) THEN SpawnedEntity(coord, c0)
        ELSE chunks[coord] ]

spawn_chunks_around_camera ==
    /\ Run("spawn")
    /\ LET c0 == world_pos_to_chunk_coord(camera)
       IN  /\ chunks' = insert_chunks(c0)
           /\ nextEntity' = nextEntity + Cardinality(FreshCoords(c0))
           /\ commands' = commands \cup
                  { Cmd("insert_chunk", SpawnedEntity(coord, c0), coord) :
                        coord \in FreshCoords(c0) }
    /\ UNCHANGED << probe, camera, loaded, chunkCoord, visibility, tileMapping,
                    resourceMapping, computeTile, computeResource, tasks,
                    history >>

\* The load pass without its q_chunks.get_mut(*chunk_entity) test.
LoadCoords_NoQuery(c0) ==
    { coord \in Tracked : /\ InRange(c0, coord, LOAD_CHUNK_RADIUS)
                          /\ ~is_loaded(coord)
                          /\ contains(coord) }

\* The load pass showing only chunks whose resource array is installed.
LoadCoords_NeedsData(c0) ==
    { coord \in Tracked : /\ InRange(c0, coord, LOAD_CHUNK_RADIUS)
                          /\ ~is_loaded(coord)
                          /\ contains(coord)
                          /\ HasVisibility(chunks[coord])
                          /\ resourceMapping[chunks[coord]] # NoData }

\* The coordinates the load pass shows.
LoadCoords(c0) ==
    { coord \in Tracked : /\ InRange(c0, coord, LOAD_CHUNK_RADIUS)
                          /\ ~is_loaded(coord)
                          /\ contains(coord)
                          /\ HasVisibility(chunks[coord]) }

load_chunks_around_camera ==
    /\ Run("load")
    /\ LET c0 == world_pos_to_chunk_coord(camera)
           shown == LoadCoords(c0)
       IN  /\ visibility' = [ e \in EntityIds |->
                                IF \E coord \in shown : chunks[coord] = e
                                THEN "Visible" ELSE visibility[e] ]
           /\ loaded' = loaded \cup shown
           /\ loadCount' = [ c \in Tracked |->
                                IF c \in shown THEN Bump(loadCount[c])
                                ELSE loadCount[c] ]
    /\ UNCHANGED << probe, camera, chunks, nextEntity, chunkCoord, tileMapping,
                    resourceMapping, computeTile, computeResource, tasks,
                    commands, tileDispatches, resourceDispatches,
                    tileInstalls, resourceInstalls >>

\* The coordinates the unload pass hides.
UnloadCoords(c0) ==
    { coord \in out_range(c0, LOAD_CHUNK_RADIUS) :
          /\ contains(coord)
          /\ HasVisibility(chunks[coord]) }

unload_chunks_outside_camera ==
    /\ Run("unload")
    /\ LET c0 == world_pos_to_chunk_coord(camera)
           hidden == UnloadCoords(c0)
       IN  /\ visibility' = [ e \in EntityIds |->
                                IF \E coord \in hidden : chunks[coord] = e
                                THEN "Hidden" ELSE visibility[e] ]
           /\ loaded' = loaded \ hidden
    /\ UNCHANGED << probe, camera, chunks, nextEntity, chunkCoord, tileMapping,
                    resourceMapping, computeTile, computeResource, tasks,
                    commands, history >>

\* --------------------------------------------------- generation scheduler

CountUp(counts, es) ==
    [ c \in Tracked |->
        IF \E e \in es : chunkCoord[e] = c THEN Bump(counts[c]) ELSE counts[c] ]

generate_terrain_task ==
    /\ Run("gen_tile")
    /\ LET es == TileQuery
       IN  /\ tileTask' = [ e \in EntityIds |->
                              IF e \in es THEN "running" ELSE tileTask[e] ]
           /\ commands' = commands \cup
                  { Cmd("insert_compute_tile", e, NoData) : e \in es }
           /\ tileDispatches' = CountUp(tileDispatches, es)
    /\ UNCHANGED << probe, camera, manager, world, resourceTask,
                    resourceDispatches, tileInstalls, resourceInstalls,
                    loadCount >>

\* The tasks kept apart from the entities' components: every task is polled.
ComputeTileQuery_AllTasks == EntityIds

\* Query<(Entity, &mut ComputeTileMapping)>
ComputeTileQuery == { e \in EntityIds : computeTile[e] }

\* Query<(Entity, &mut ComputeResourceMapping)>
ComputeResourceQuery == { e \in EntityIds : computeResource[e] }

\* The merge pass waiting for its tasks (block_on(&mut task.0) in place of
\* poll_once): it cannot return while a polled task is running.
handle_generate_terrain_task_Blocking ==
    /\ Run("handle_tile")
    /\ \A e \in ComputeTileQuery : tileTask[e] # "running"
    /\ LET es == { e \in ComputeTileQuery : tileTask[e] = "done" }
       IN  /\ tileTask' = [ e \in EntityIds |->
                              IF e \in es THEN "taken" ELSE tileTask[e] ]
           /\ commands' = commands \cup
                  { Cmd("install_tile", e, TerrainGenerate(chunkCoord[e])) : e \in es }
    /\ UNCHANGED << probe, camera, manager, world, resourceTask, history >>

\* poll_once on every ComputeTileMapping; a finished task hands over its queue.
handle_generate_terrain_task ==
    /\ Run("handle_tile")
    /\ LET es == { e \in ComputeTileQuery : tileTask[e] = "done" }
       IN  /\ tileTask' = [ e \in EntityIds |->
                              IF e \in es THEN "taken" ELSE tileTask[e] ]
           /\ commands' = commands \cup
                  { Cmd("install_tile", e, TerrainGenerate(chunkCoord[e])) : e \in es }
    /\ UNCHANGED << probe, camera, manager, world, resourceTask, history >>

generate_resource_task ==
    /\ Run("gen_res")
    /\ LET es == ResourceQuery
       IN  /\ resourceTask' = [ e \in EntityIds |->
                                  IF e \in es THEN "running" ELSE resourceTask[e] ]
           /\ commands' = commands \cup
                  { Cmd("insert_compute_resource", e, NoData) : e \in es }
           /\ resourceDispatches' = CountUp(resourceDispatches, es)
    /\ UNCHANGED << probe, camera, manager, world, tileTask,
                    tileDispatches, tileInstalls, resourceInstalls,
                    loadCount >>

handle_generate_resource_task ==
    /\ Run("handle_res")
    /\ LET es == { e \in ComputeResourceQuery : resourceTask[e] = "done" }
       IN  /\ resourceTask' = [ e \in EntityIds |->
                                  IF e \in es THEN "taken" ELSE resourceTask[e] ]
           /\ commands' = commands \cup
                  { Cmd("install_resource", e, ResourceGenerate(chunkCoord[e])) : e \in es }
    /\ UNCHANGED << probe, camera, manager, world, tileTask, history >>

\* A task that writes its result to the chunk itself when it finishes,
\* from the worker thread.
WorkerFinishTile_WritesWorld(e) ==
    /\ tileTask[e] = "running"
    /\ tileTask' = [ tileTask EXCEPT ![e] = "taken" ]
    /\ tileMapping' = [ tileMapping EXCEPT ![e] = TerrainGenerate(chunkCoord[e]) ]
    /\ UNCHANGED << probe, camera, manager, nextEntity, chunkCoord, visibility,
                    resourceMapping, computeTile, computeResource,
                    resourceTask, commands, ran, history >>

\* A task of the pool finishes: the closure has built its CommandQueue.
WorkerFinishTile(e) ==
    /\ tileTask[e] = "running"
    /\ tileTask' = [ tileTask EXCEPT ![e] = "done" ]
    /\ UNCHANGED << probe, camera, manager, world, resourceTask, commands, ran, history >>

WorkerFinishResource(e) ==
    /\ resourceTask[e] = "running"
    /\ resourceTask' = [ resourceTask EXCEPT ![e] = "done" ]
    /\ UNCHANGED << probe, camera, manager, world, tileTask, commands, ran, history >>

\* ------------------------------------------------ end of the schedule

Has(op, e) == \E c \in commands : c.op = op /\ c.e = e
ArgOf(op, e) == (CHOOSE c \in commands : c.op = op /\ c.e = e).arg

\* .insert(TileMapping(mapping)).remove::<ComputeTileMapping>()
InstallTile(e) == Has("install_tile", e)
InstallResource(e) == Has("install_resource", e)

FlushWorld ==
    /\ ran' = {}
    /\ commands' = {}
    /\ chunkCoord' = [ e \in EntityIds |->
          IF Has("insert_chunk", e) THEN ArgOf("insert_chunk", e) ELSE chunkCoord[e] ]
    /\ visibility' = [ e \in EntityIds |->
          IF Has("insert_chunk", e) THEN "Hidden" ELSE visibility[e] ]
    /\ tileMapping' = [ e \in EntityIds |->
          IF InstallTile(e) THEN ArgOf("install_tile", e) ELSE tileMapping[e] ]
    /\ computeTile' = [ e \in EntityIds |->
          IF InstallTile(e) THEN FALSE
          ELSE IF Has("insert_compute_tile", e) THEN TRUE ELSE computeTile[e] ]
    /\ resourceMapping' = [ e \in EntityIds |->
          IF InstallResource(e) THEN ArgOf("install_resource", e)
          ELSE resourceMapping[e] ]
    /\ computeResource' = [ e \in EntityIds |->
          IF InstallResource(e) THEN FALSE
          ELSE IF Has("insert_compute_resource", e) THEN TRUE ELSE computeResource[e] ]
    /\ tileInstalls' = [ e \in EntityIds |->
          IF InstallTile(e) THEN Bump(tileInstalls[e]) ELSE tileInstalls[e] ]
    /\ resourceInstalls' = [ e \in EntityIds |->
          IF InstallResource(e) THEN Bump(resourceInstalls[e]) ELSE resourceInstalls[e] ]
    /\ UNCHANGED << camera, manager, nextEntity, tasks,
                    tileDispatches, resourceDispatches, loadCount >>

Flush ==
    /\ ran = Systems
    /\ FlushWorld
    /\ UNCHANGED probe

\* The camera controller moves the camera between two frames: the terrain
\* systems of one frame all read the same Transform.
MoveCamera ==
    /\ ran = {}
    /\ camera' \in CameraPositions \ { camera }
    /\ UNCHANGED << probe, manager, world, tasks, commands, ran, history >>

\* One step of the Update schedule: a system that has not run in this
\* frame runs, or the frame ends.
Frame ==
    \/ spawn_chunks_around_camera
    \/ load_chunks_around_camera
    \/ unload_chunks_outside_camera
    \/ generate_terrain_task
    \/ handle_generate_terrain_task
    \/ generate_resource_task
    \/ handle_generate_resource_task
    \/ Flush

Worker ==
    \/ \E e \in EntityIds : WorkerFinishTile(e)
    \/ \E e \in EntityIds : WorkerFinishResource(e)

Next == Frame \/ Worker \/ MoveCamera

Spec == Init /\ [][Next]_vars

\* The app keeps running frames, and the pool does not stall while a task
\* is running.  A task finishes once, so this runs every task to its end.
Fairness ==
    /\ WF_vars(Frame)
    /\ WF_vars(Worker)

\* The camera pans over the positions from which chunk (0,0) stays in the
\* load radius.
NearPositions ==
    { p \in CameraPositions :
        ChebyshevDistance(world_pos_to_chunk_coord(p), << 0, 0 >>)
            <= LOAD_CHUNK_RADIUS }

PanCamera ==
    /\ ran = {}
    /\ camera' \in NearPositions \ { camera }
    /\ UNCHANGED << probe, manager, world, tasks, commands, ran, history >>

NextPan == Frame \/ Worker \/ PanCamera

PanSpec == Init /\ [][NextPan]_vars /\ Fairness

\* The camera stays where it starts, at the world origin.
NextFixed == Frame \/ Worker

FixedSpec == Init /\ [][NextFixed]_vars /\ Fairness

\* ------------------------------------------------- meshes and props

\* The generation systems and the two systems that dress a chunk.
RenderSystems == { "gen_tile", "handle_tile", "gen_res", "handle_res",
                   "chunks_tiles", "chunks_resources" }

\* Both tracked chunks have been spawned and their commands applied: each
\* has its ChunkCoord and nothing else.
RenderInit ==
    /\ camera = << 0, 0 >>
    /\ chunks = [ c \in Tracked |-> IF c = << 0, 0 >> THEN 1 ELSE 2 ]
    /\ loaded = {}
    /\ nextEntity = 3
    /\ chunkCoord = [ e \in EntityIds |->
          IF e = 1 THEN << 0, 0 >> ELSE IF e = 2 THEN << 10, 10 >> ELSE NoCoord ]
    /\ visibility = [ e \in EntityIds |-> IF e \in { 1, 2 } THEN "Hidden" ELSE "None" ]
    /\ tileMapping = [ e \in EntityIds |-> NoData ]
    /\ resourceMapping = [ e \in EntityIds |-> NoData ]
    /\ computeTile = [ e \in EntityIds |-> FALSE ]
    /\ computeResource = [ e \in EntityIds |-> FALSE ]
    /\ tileTask = [ e \in EntityIds |-> "none" ]
    /\ resourceTask = [ e \in EntityIds |-> "none" ]
    /\ commands = {}
    /\ ran = {}
    /\ tileDispatches = [ c \in Tracked |-> 0 ]
    /\ resourceDispatches = [ c \in Tracked |-> 0 ]
    /\ tileInstalls = [ e \in EntityIds |-> 0 ]
    /\ resourceInstalls = [ e \in EntityIds |-> 0 ]
    /\ loadCount = [ c \in Tracked |-> 0 ]
    /\ Unrendered
    /\ EconomyIdle
    /\ UnitsIdle
    /\ call = NoCall
    /\ result = NoData
    /\ SamplerIdle

\* Query<(Entity, &TileMapping), (With<ChunkCoord>, Without<ChunkHandledTiles>)>
ChunkTilesQuery ==
    { e \in EntityIds : /\ chunkCoord[e] # NoCoord
                        /\ tileMapping[e] # NoData
                        /\ ~handledTiles[e] }

\* The query without its Without<ChunkHandledResources> filter.
ChunkResourcesQuery_NoMarker ==
    { e \in EntityIds : /\ chunkCoord[e] # NoCoord
                        /\ tileMapping[e] # NoData
                        /\ resourceMapping[e] # NoData }

\* Query<(Entity, &ChunkCoord, &TileMapping, &ResourceMapping),
\*       Without<ChunkHandledResources>>
ChunkResourcesQuery ==
    { e \in EntityIds : /\ chunkCoord[e] # NoCoord
                        /\ tileMapping[e] # NoData
                        /\ resourceMapping[e] # NoData
                        /\ ~handledResources[e] }

\* commands.entity(entity).insert((chunk_mesh, chunk_material, ChunkHandledTiles))
run_handle_chunks_tiles ==
    /\ Run("chunks_tiles")
    /\ commands' = commands \cup
           { Cmd("insert_mesh", e, tileMapping[e]) : e \in ChunkTilesQuery }
    /\ UNCHANGED << probe, camera, manager, world, tasks, history >>

\* commands.entity(entity).insert(ChunkHandledResources).with_children(..)
run_handle_chunks_resources ==
    /\ Run("chunks_resources")
    /\ commands' = commands \cup
           { Cmd("spawn_props", e, << tileMapping[e], resourceMapping[e] >>) :
                 e \in ChunkResourcesQuery }
    /\ UNCHANGED << probe, camera, manager, world, tasks, history >>

\* The end of a schedule with these systems: the installs of the tasks and
\* the inserts and spawns of the two dressing systems are applied.
RenderFlush ==
    /\ ran = RenderSystems
    /\ FlushWorld
    /\ handledTiles' = [ e \in EntityIds |->
          handledTiles[e] \/ Has("insert_mesh", e) ]
    /\ meshInserts' = [ e \in EntityIds |->
          IF Has("insert_mesh", e) THEN Bump(meshInserts[e]) ELSE meshInserts[e] ]
    /\ handledResources' = [ e \in EntityIds |->
          handledResources[e] \/ Has("spawn_props", e) ]
    /\ propSpawns' = [ e \in EntityIds |->
          IF Has("spawn_props", e) THEN Bump(propSpawns[e]) ELSE propSpawns[e] ]
    /\ UNCHANGED << call, result, sampling, economy, units >>

RenderFrame ==
    \/ generate_terrain_task
    \/ handle_generate_terrain_task
    \/ generate_resource_task
    \/ handle_generate_resource_task
    \/ run_handle_chunks_tiles
    \/ run_handle_chunks_resources
    \/ RenderFlush

RenderNext == RenderFrame \/ Worker

RenderSpec == RenderInit /\ [][RenderNext]_vars


\* ------------------------------------------- the building tool and quota

\* Bounds of the economy: the count the gathering stops at, the builds, and
\* the quota from which the timer is no longer followed.
MaxResources == 11
MaxBuildings == 2
MaxQuota == 250

\* BUILDING_COST is declared outside these files: any positive cost.
BuildingCosts == { 1, 5 }

BuildSystems == { "check", "handle", "quota" }

\* What a frame brings: whether the left button was just pressed, whether
\* the quota timer finished, whether the tile under the tool is free land.
FrameInputs ==
    { [ click |-> c, finished |-> f, free |-> t ] :
          c \in BOOLEAN, f \in BOOLEAN, t \in BOOLEAN }

\* a >= b of two u32, on their bits read as i32
UGe(a, b) == IF (a < 0) = (b < 0) THEN a >= b ELSE a < 0

BuildInit ==
    /\ WorldInit
    /\ Unrendered
    /\ resourceCount = RESOURCE_INITIAL
    /\ quota = QUOTA_INITIAL
    /\ quotaSuccess = FALSE
    /\ buildingValid = FALSE
    /\ buildingCost \in BuildingCosts
    /\ buildings = 0
    /\ frameInput \in FrameInputs
    /\ buildPc = "running"
    /\ UnitsIdle
    /\ call = NoCall
    /\ result = NoData
    /\ SamplerIdle

BuildFrame ==
    UNCHANGED << call, result, sampling, rendering, units, camera, manager, world,
                 tasks, commands, history >>

\* **building_valid = !is_blocked && !is_water && has_resources
check_building_tool_valid ==
    /\ buildPc = "running"
    /\ Run("check")
    /\ buildingValid' = (frameInput.free /\ UGe(resourceCount, buildingCost))
    /\ UNCHANGED << resourceCount, quota, quotaSuccess, buildingCost, buildings,
                    frameInput, buildPc >>
    /\ BuildFrame

\* The subtraction behind a test of the count made when it is made.
Subtracts_Rechecked == buildingValid /\ frameInput.click
                           /\ UGe(resourceCount, buildingCost)

\* if !**building_valid { return; } .. if just_pressed(Left) { .. }
Subtracts == buildingValid /\ frameInput.click

\* **resources -= BUILDING_COST of a u32: the build with overflow checks
\* panics when the count is short, the build without them wraps.
handle_building_tool ==
    /\ buildPc = "running"
    /\ Run("handle")
    /\ IF ~Subtracts
       THEN UNCHANGED << resourceCount, buildings, buildPc >>
       ELSE \/ /\ resourceCount' = resourceCount - buildingCost
               /\ buildings' = buildings + 1
               /\ UNCHANGED buildPc
            \/ /\ ~UGe(resourceCount, buildingCost)
               /\ buildPc' = "panic"
               /\ UNCHANGED << resourceCount, buildings >>
    /\ UNCHANGED << quota, quotaSuccess, buildingValid, buildingCost, frameInput >>
    /\ BuildFrame

\* timer.tick(time.delta()); if timer.finished() { .. }
update_quota ==
    /\ buildPc = "running"
    /\ Run("quota")
    /\ IF ~frameInput.finished
       THEN UNCHANGED << resourceCount, quota, quotaSuccess >>
       ELSE IF ~UGe(resourceCount, quota)
       THEN /\ quotaSuccess' = FALSE
            /\ UNCHANGED << resourceCount, quota >>
       ELSE /\ resourceCount' = resourceCount - quota
            /\ quota' = quota * 5
            /\ quotaSuccess' = TRUE
    /\ UNCHANGED << buildingValid, buildingCost, buildings, frameInput, buildPc >>
    /\ BuildFrame

\* **resource_count += 1 of the systems that gather, between two frames.
GainResource ==
    /\ buildPc = "running"
    /\ ran = {}
    /\ resourceCount < MaxResources
    /\ resourceCount' = resourceCount + 1
    /\ UNCHANGED << quota, quotaSuccess, buildingValid, buildingCost, buildings,
                    frameInput, buildPc, ran >>
    /\ BuildFrame

\* The schedule ends and the next frame brings its input.
BuildFrameEnd ==
    /\ buildPc = "running"
    /\ ran = BuildSystems
    /\ ran' = {}
    /\ frameInput' \in { i \in FrameInputs :
                            /\ i.click => buildings < MaxBuildings
                            /\ i.finished => quota < MaxQuota }
    /\ UNCHANGED << resourceCount, quota, quotaSuccess, buildingValid,
                    buildingCost, buildings, buildPc >>
    /\ BuildFrame

BuildNext ==
    \/ check_building_tool_valid
    \/ handle_building_tool
    \/ update_quota
    \/ GainResource
    \/ BuildFrameEnd

BuildSpec == BuildInit /\ [][BuildNext]_vars


\* ------------------------------------------------------------ the units

UnitSystems == { "position", "waypoints", "actions" }

\* velocity * time.delta_seconds(), in the unit of the positions
UnitSteps == { 1, 2 }

ActionLists == { << "Deposit" >>, << "Gather", "Deposit" >> }

\* A route: waypoints with their actions, the last of which may release
\* the worker.
Waypoints(lists) ==
    { [ pos |-> p, actions |-> a ] : p \in 1..MaxUnitPos, a \in lists }

Routes ==
    UNION { { Append(r, w) : r \in [ 1..(n - 1) -> Waypoints(ActionLists) ],
                             w \in Waypoints(ActionLists \cup { << "Release" >> }) } :
            n \in 1..MaxRoute }

UnitInit ==
    /\ WorldInit
    /\ Unrendered
    /\ EconomyIdle
    /\ unitAlive = TRUE
    /\ unitPos = 0
    /\ waypoints \in Routes
    /\ unitActions = NoActions
    /\ unitCommands = << >>
    /\ reached = 0
    /\ executed = [ w \in 1..MaxRoute |-> 0 ]
    /\ call = NoCall
    /\ result = NoData
    /\ SamplerIdle

UnitFrame ==
    UNCHANGED << call, result, sampling, rendering, camera, manager, world,
                 tasks, commands, history, quota, quotaSuccess, buildingValid,
                 buildingCost, buildings, frameInput, buildPc >>

UnitCmd(op, id, actions) == [ op |-> op, id |-> id, actions |-> actions ]

\* if distance < delta { translation = next_waypoint } else { += direction * delta }
update_unit_position ==
    /\ Run("position")
    /\ \E delta \in UnitSteps :
          unitPos' =
             IF ~unitAlive \/ waypoints = << >> THEN unitPos
             ELSE LET next_waypoint == Head(waypoints).pos
                      distance == Abs(next_waypoint - unitPos)
                  IN  IF distance < delta THEN next_waypoint
                      ELSE IF next_waypoint > unitPos THEN unitPos + delta
                      ELSE unitPos - delta
    /\ UNCHANGED << unitAlive, waypoints, unitActions, unitCommands, reached,
                    executed, resourceCount >>
    /\ UnitFrame

\* if distance < CLOSE_ENOUGH { insert(UnitWaypointActions(..)); pop_front() }
update_unit_waypoints ==
    /\ Run("waypoints")
    /\ IF unitAlive /\ waypoints # << >> /\ Head(waypoints).pos = unitPos
       THEN /\ unitCommands' = Append(unitCommands,
                  UnitCmd("insert_actions", reached + 1, Head(waypoints).actions))
            /\ waypoints' = Tail(waypoints)
            /\ reached' = reached + 1
       ELSE UNCHANGED << unitCommands, waypoints, reached >>
    /\ UNCHANGED << unitAlive, unitPos, unitActions, executed, resourceCount >>
    /\ UnitFrame

\* The commands one action queues.
ActionCmds(action) ==
    IF action = "Gather" THEN << UnitCmd("despawn_resource", 0, << >>) >>
    ELSE IF action = "Release"
    THEN << UnitCmd("remove_worker", 0, << >>), UnitCmd("despawn_unit", 0, << >>) >>
    ELSE << >>

RECURSIVE AllActionCmds(_)
AllActionCmds(actions) ==
    IF actions = << >> THEN << >>
    ELSE ActionCmds(Head(actions)) \o AllActionCmds(Tail(actions))

Deposits(actions) ==
    Cardinality({ i \in 1..Len(actions) : actions[i] = "Deposit" })

\* remove::<UnitWaypointActions>(), then every action of the component
manage_unit_actions ==
    /\ Run("actions")
    /\ IF unitAlive /\ unitActions.id # 0
       THEN /\ unitCommands' = unitCommands
                  \o << UnitCmd("remove_actions", 0, << >>) >>
                  \o AllActionCmds(unitActions.actions)
            /\ resourceCount' = resourceCount + Deposits(unitActions.actions)
            /\ executed' = [ executed EXCEPT ![unitActions.id] = Bump(@) ]
       ELSE UNCHANGED << unitCommands, resourceCount, executed >>
    /\ UNCHANGED << unitAlive, unitPos, waypoints, unitActions, reached >>
    /\ UnitFrame

\* The component a unit is left with when the commands are applied in order.
RECURSIVE ApplyActions(_, _)
ApplyActions(actions, cmds) ==
    IF cmds = << >> THEN actions
    ELSE ApplyActions(
             IF Head(cmds).op = "insert_actions"
             THEN [ id |-> Head(cmds).id, actions |-> Head(cmds).actions ]
             ELSE IF Head(cmds).op = "remove_actions" THEN NoActions
             ELSE actions,
             Tail(cmds))

\* The end of the schedule: the buffers of the systems are applied one
\* system after the other, in the order the schedule has given them.
UnitFlush ==
    /\ ran = UnitSystems
    /\ ran' = {}
    /\ unitCommands' = << >>
    /\ unitAlive' = (unitAlive /\ \A i \in 1..Len(unitCommands) :
                                    unitCommands[i].op # "despawn_unit")
    /\ unitActions' = IF unitAlive' THEN ApplyActions(unitActions, unitCommands)
                      ELSE NoActions
    /\ UNCHANGED << unitPos, waypoints, reached, executed, resourceCount >>
    /\ UnitFrame

UnitNext ==
    \/ update_unit_position
    \/ update_unit_waypoints
    \/ manage_unit_actions
    \/ UnitFlush

UnitSpec == UnitInit /\ [][UnitNext]_vars


\* ------------------------------------------------ the geometry helpers

ChunkAxis == (-MaxChunk)..MaxChunk

\* Offsets from a chunk's centre: its first and last positions, its centre,
\* and the two sides of a tile boundary.
AxisOffsets ==
    LET half == (CHUNK_SIZE * CHUNK_TILE_SIZE) \div 2
    IN  { -half, 1 - half, -1, 0, CHUNK_TILE_SIZE - 1, CHUNK_TILE_SIZE, half - 1 }

WorldAxis ==
    { x[1] * (CHUNK_SIZE * CHUNK_TILE_SIZE) + x[2] : x \in ChunkAxis \X AxisOffsets }

TileAxis == { 0, 1, CHUNK_SIZE \div 2, CHUNK_SIZE - 1 }

GlobalAxis ==
    { tile_coord_to_global_axis(x[1], x[2]) : x \in TileAxis \X ChunkAxis }

Calls(fn, S) == { [ fn |-> fn, args |-> a ] : a \in S }

\* The helper functions called with sizes of their own, as the unit tests
\* call them: chunk sizes in tiles (x, y) and tile sizes in world units.
MaxGlobal == 9
ChunkSizes == { << 2, 2 >>, << 3, 2 >>, << 16, 16 >> }
TileSizes == { 4, 32 }
GlobalRange == (-MaxGlobal)..MaxGlobal

\* Tile coordinates and indices of a chunk of the given size.
TilesOf(size) == (0..(size[1] - 1)) \X (0..(size[2] - 1))
IndicesOf(size) == 0..(size[1] * size[2] - 1)

MaxPos == 13
WorldRange == (-MaxPos)..MaxPos

SizedCalls ==
    Calls("global_coord_to_tile_coord(size)",
          (GlobalRange \X GlobalRange) \X ChunkSizes)
        \cup Calls("world_pos_to_global_coord(size)",
                   (WorldRange \X WorldRange) \X ChunkSizes \X TileSizes)
        \cup Calls("global_coord_to_world_pos",
                   (GlobalRange \X GlobalRange) \X ChunkSizes \X TileSizes)
        \cup Calls("snap_to_tile",
                   (WorldRange \X WorldRange) \X ChunkSizes \X TileSizes)
        \cup UNION { Calls("index_to_tile_coord", IndicesOf(size) \X { size }) :
                        size \in ChunkSizes }
        \cup UNION { Calls("tile_coord_to_index", TilesOf(size) \X { size }) :
                        size \in ChunkSizes }
        \cup UNION { Calls("tile_coord_to_world_off",
                            TilesOf(size) \X { size } \X TileSizes) :
                        size \in ChunkSizes }

\* enum TileKind, enum ResourceKind
TileKinds == { "Water", "Grass", "Barren" }
ResourceKinds == { "None", "Tree", "Rock" }

\* The match with the rock arm moved to the top.
props_for_RockFirst(resource, tile) ==
    CASE resource = "Rock" -> "rock"
      [] tile = "Water" -> "none"
      [] resource = "None" -> "none"
      [] resource = "Tree" /\ tile = "Grass" -> "tree"
      [] OTHER -> "tree_dead"

\* match (resource, tile): the scene spawned at each sampled point of the
\* tile ("none": nothing is spawned).  A sampler run yields at least its
\* initial point.
props_for(resource, tile) ==
    CASE tile = "Water" -> "none"
      [] resource = "None" -> "none"
      [] resource = "Tree" /\ tile = "Grass" -> "tree"
      [] resource = "Tree" /\ tile = "Barren" -> "tree_dead"
      [] OTHER -> "rock"

\* The children handle_chunks_resources spawns for a chunk, tile by tile.
handle_chunks_resources(resource_mapping, tile_mapping) ==
    [ index \in 1..Min(Len(resource_mapping), Len(tile_mapping)) |->
        props_for(resource_mapping[index], tile_mapping[index]) ]

\* ChunkManager::insert: HashMap::insert, whose return value (the entity the
\* coordinate had) is dropped.
ChunkManager_insert(registry, coord, entity) ==
    << "ok", [ registry EXCEPT ![coord] = entity ] >>

\* The command a finished tile task queues, applied to an entity that has
\* (or has not) a ComputeTileMapping and a TileMapping:
\* .insert(TileMapping(mapping)).remove::<ComputeTileMapping>()
install_tile_mapping(compute, installed, mapping) ==
    << "ok", FALSE, mapping >>

\* Noise samples, in tenths.
NoiseTenths == -10..10

\* TileKind::from_noise: cut points 0.0 and 0.3.
from_noise(noise) ==
    IF noise < 0 THEN "Water" ELSE IF noise < 3 THEN "Grass" ELSE "Barren"

\* The closure TerrainGenerator::generate maps over the noise map: cut
\* points 0.1 and 0.4.
TerrainGenerator_generate(noise) ==
    IF noise < 1 THEN "Barren" ELSE IF noise < 4 THEN "Grass" ELSE "Water"

GenerationCalls ==
    Calls("handle_chunks_resources",
          (ResourceKinds \X ResourceKinds) \X (TileKinds \X TileKinds))
        \cup Calls("ChunkManager::insert",
                   [ Tracked -> { NoEntity } \cup EntityIds ] \X Tracked \X EntityIds)
        \cup Calls("TileKind::from_noise", NoiseTenths)
        \cup Calls("TerrainGenerator::generate", NoiseTenths)
        \cup Calls("install_tile_mapping",
                   BOOLEAN \X { NoData, TerrainGenerate(<< 0, 0 >>) }
                       \X { TerrainGenerate(<< 0, 0 >>), TerrainGenerate(<< 10, 10 >>) })

GeometryCalls ==
    Calls("world_pos_to_chunk_coord", WorldAxis \X WorldAxis)
        \cup Calls("chunk_coord_to_world_pos", ChunkAxis \X ChunkAxis)
        \cup Calls("world_pos_to_tile_coord", WorldAxis \X WorldAxis)
        \cup Calls("global_coord_to_tile_coord", GlobalAxis \X GlobalAxis)
        \cup Calls("global_coord_to_chunk_coord", GlobalAxis \X GlobalAxis)
        \cup Calls("tile_coord_to_global_coord",
                   (TileAxis \X TileAxis) \X (ChunkAxis \X ChunkAxis))
        \cup SizedCalls
        \cup GenerationCalls

GeometryInit ==
    /\ TerrainInit
    /\ call \in GeometryCalls
    /\ result = NoData
    /\ SamplerIdle

Returns(fn, value) ==
    /\ call.fn = fn
    /\ result = NoData
    /\ result' = value
    /\ UNCHANGED << call, sampling, rendering, economy, units, camera, manager, world, tasks,
                    commands, ran, history >>

Call_world_pos_to_chunk_coord ==
    Returns("world_pos_to_chunk_coord", world_pos_to_chunk_coord(call.args))

Call_chunk_coord_to_world_pos ==
    Returns("chunk_coord_to_world_pos", chunk_coord_to_world_pos(call.args))

Call_world_pos_to_tile_coord ==
    Returns("world_pos_to_tile_coord", world_pos_to_tile_coord(call.args))

Call_global_coord_to_tile_coord ==
    Returns("global_coord_to_tile_coord", global_coord_to_tile_coord(call.args))

Call_global_coord_to_chunk_coord ==
    Returns("global_coord_to_chunk_coord", global_coord_to_chunk_coord(call.args))

Call_tile_coord_to_global_coord ==
    Returns("tile_coord_to_global_coord",
            tile_coord_to_global_coord(call.args[1], call.args[2]))

Call_global_coord_to_tile_coord_sized ==
    Returns("global_coord_to_tile_coord(size)",
            << global_coord_to_tile(call.args[1][1], call.args[2][1]),
               global_coord_to_tile(call.args[1][2], call.args[2][2]) >>)

Call_world_pos_to_global_coord_sized ==
    Returns("world_pos_to_global_coord(size)",
            << world_pos_to_global(call.args[1][1], call.args[2][1], call.args[3]),
               world_pos_to_global(call.args[1][2], call.args[2][2], call.args[3]) >>)

Call_index_to_tile_coord ==
    Returns("index_to_tile_coord", index_to_tile_coord(call.args[1], call.args[2]))

\* A usize result, told apart from a result not there yet.
Usize(n) == << "usize", n >>

Call_tile_coord_to_index ==
    Returns("tile_coord_to_index",
            Usize(tile_coord_to_index(call.args[1], call.args[2])))

Call_tile_coord_to_world_off ==
    Returns("tile_coord_to_world_off",
            << tile_coord_to_world_off(call.args[1][1], call.args[2][1], call.args[3]),
               tile_coord_to_world_off(call.args[1][2], call.args[2][2], call.args[3]) >>)

Call_handle_chunks_resources ==
    Returns("handle_chunks_resources",
            << "props", handle_chunks_resources(call.args[1], call.args[2]) >>)

Call_ChunkManager_insert ==
    Returns("ChunkManager::insert",
            ChunkManager_insert(call.args[1], call.args[2], call.args[3]))

Call_install_tile_mapping ==
    Returns("install_tile_mapping",
            install_tile_mapping(call.args[1], call.args[2], call.args[3]))

Call_from_noise ==
    Returns("TileKind::from_noise", << "kind", from_noise(call.args) >>)

Call_TerrainGenerator_generate ==
    Returns("TerrainGenerator::generate",
            << "kind", TerrainGenerator_generate(call.args) >>)

Call_global_coord_to_world_pos ==
    Returns("global_coord_to_world_pos",
            << global_coord_to_world(call.args[1][1], call.args[2][1], call.args[3]),
               global_coord_to_world(call.args[1][2], call.args[2][2], call.args[3]) >>)

Call_snap_to_tile ==
    Returns("snap_to_tile",
            << snap_to_tile(call.args[1][1], call.args[2][1], call.args[3]),
               snap_to_tile(call.args[1][2], call.args[2][2], call.args[3]) >>)

GeometryNext ==
    \/ Call_world_pos_to_chunk_coord
    \/ Call_chunk_coord_to_world_pos
    \/ Call_world_pos_to_tile_coord
    \/ Call_global_coord_to_tile_coord
    \/ Call_global_coord_to_chunk_coord
    \/ Call_tile_coord_to_global_coord
    \/ Call_global_coord_to_tile_coord_sized
    \/ Call_world_pos_to_global_coord_sized
    \/ Call_index_to_tile_coord
    \/ Call_tile_coord_to_index
    \/ Call_tile_coord_to_world_off
    \/ Call_global_coord_to_world_pos
    \/ Call_snap_to_tile
    \/ Call_handle_chunks_resources
    \/ Call_ChunkManager_insert
    \/ Call_install_tile_mapping
    \/ Call_from_noise
    \/ Call_TerrainGenerator_generate

GeometrySpec == GeometryInit /\ [][GeometryNext]_vars

\* ------------------------------------------------ the Poisson-disc sampler

(***************************************************************************)
(* PoissonDiscSampler of src/helpers/sampling/disc.rs.  Points are pairs   *)
(* of whole numbers.  A uniform draw of [0, 1) is a number of eighths.     *)
(* The radius is given by the grid cell it yields: cell_size = radius /    *)
(* sqrt(2), so radius = cell * sqrt(2) and radius^2 = 2 * cell^2.  The     *)
(* angles drawn are the odd eighths of a turn, whose directions are        *)
(* (+-1, +-1) / sqrt(2): a candidate at distance radius * (1 + d/8) is     *)
(* then cell * (8 + d) / 8 away from the sample on both axes.              *)
(***************************************************************************)

\* Largest number of candidates per sample (k).
MaxK == 2
\* sample() is followed until it holds this many samples.
MaxSamples == 6

SamplerCells == { 2 }
SamplerSizes == { << 8, 4 >>, << 5, 3 >> }
Eighths == 0..7
None == -1

CeilDiv(a, b) == (a + b - 1) \div b
RadiusSq(cell) == 2 * cell * cell
DistSq(a, b) == (a[1] - b[1]) * (a[1] - b[1]) + (a[2] - b[2]) * (a[2] - b[2])

\* Draws whose product with the size, or with the radius, is a whole number.
InitialDraws(size) ==
    { u \in Eighths \X Eighths : (u[1] * size[1]) % 8 = 0 /\ (u[2] * size[2]) % 8 = 0 }
IndexDraws == Eighths \X { 0 }
AngleDraws == { 1, 3, 5, 7 }
DistanceDraws(cell) == { d \in Eighths : (cell * (8 + d)) % 8 = 0 }
CandidateDraws(cell) == AngleDraws \X DistanceDraws(cell)

\* PoissonDiscSampler::new(seed).with_radius(..).with_size(..).with_k(..)
NewSampler(cell, size, k) ==
    [ pc |-> "new", cell |-> cell, size |-> size, k |-> k, grid |-> << >>,
      samples |-> << >>, active |-> << >>, index |-> 0, tries |-> 0 ]

grid_size(s) == << CeilDiv(s.size[1], s.cell), CeilDiv(s.size[2], s.cell) >>
grid_len(s) == grid_size(s)[1] * grid_size(s)[2]
\* (point / cell_size).as_uvec2()
cell_coord(s, point) == << point[1] \div s.cell, point[2] \div s.cell >>
cell_index(s, coord) == coord[2] * grid_size(s)[1] + coord[1]

\* Rect::contains is inclusive of the edges of the rectangle.
Rect_contains(size, point) ==
    /\ 0 <= point[1] /\ point[1] <= size[1]
    /\ 0 <= point[2] /\ point[2] <= size[2]

is_valid(s, candidate) ==
    /\ Rect_contains(s.size, candidate)
    /\ LET coord == cell_coord(s, candidate)
           min_x == Max(coord[1] - 2, 0)
           max_x == Min(coord[1] + 2, grid_size(s)[1] - 1)
           min_y == Max(coord[2] - 2, 0)
           max_y == Min(coord[2] + 2, grid_size(s)[2] - 1)
       IN  \A y \in min_y..max_y, x \in min_x..max_x :
              LET index == s.grid[y * grid_size(s)[1] + x]
              IN  index # None =>
                      DistSq(candidate, s.samples[index + 1]) >= RadiusSq(s.cell)

\* direction * sqrt(2) for an angle of a eighths of a turn
DiagonalSign(a) ==
    CASE a = 1 -> << 1, 1 >>
      [] a = 3 -> << -1, 1 >>
      [] a = 5 -> << -1, -1 >>
      [] OTHER -> << 1, -1 >>

\* sample + direction * distance
Candidate(s, a, d) ==
    LET sample == s.active[s.index + 1]
        step == (s.cell * (8 + d)) \div 8
    IN  << sample[1] + DiagonalSign(a)[1] * step,
           sample[2] + DiagonalSign(a)[2] * step >>

\* Vec::remove(index)
Remove(seq, index) ==
    [ i \in 1..(Len(seq) - 1) |-> IF i <= index THEN seq[i] ELSE seq[i + 1] ]

\* The grid, the initial point and its cell.
sample_begin(s, u1, u2) ==
    LET initial == << (u1 * s.size[1]) \div 8, (u2 * s.size[2]) \div 8 >>
        initial_index == cell_index(s, cell_coord(s, initial))
    IN  [ s EXCEPT !.pc = "loop",
                   !.grid = [ i \in 0..(grid_len(s) - 1) |->
                                 IF i = initial_index THEN 0 ELSE None ],
                   !.samples = << initial >>,
                   !.active = << initial >> ]

\* The head of the while loop: an entry of the active list is chosen.
sample_pick(s, u) ==
    [ s EXCEPT !.pc = "try", !.index = (u * Len(s.active)) \div 8, !.tries = 0 ]

\* One pass of the for loop: a candidate is drawn, and kept when valid.
sample_try(s, a, d) ==
    LET candidate == Candidate(s, a, d)
        candidate_index == cell_index(s, cell_coord(s, candidate))
    IN  IF is_valid(s, candidate)
        THEN IF candidate_index >= grid_len(s)
             THEN [ s EXCEPT !.pc = "panic" ]
             ELSE [ s EXCEPT !.pc = "loop",
                             !.grid[candidate_index] = Len(s.samples),
                             !.samples = Append(s.samples, candidate),
                             !.active = Append(s.active, candidate) ]
        ELSE [ s EXCEPT !.tries = s.tries + 1 ]

\* The for loop ended without a candidate: the entry leaves the active list.
sample_exhausted(s) ==
    [ s EXCEPT !.pc = "loop", !.active = Remove(s.active, s.index) ]

\* The active list is empty: samples is returned.
sample_return(s) == [ s EXCEPT !.pc = "done" ]

SamplerFrame ==
    UNCHANGED << call, result, rendering, economy, units, camera, manager, world, tasks,
                 commands, ran, history >>

SamplerInit ==
    /\ TerrainInit
    /\ call = NoCall
    /\ result = NoData
    /\ \E cell \in SamplerCells, size \in SamplerSizes, k \in 0..MaxK :
          sampler = NewSampler(cell, size, k)
    /\ rerun = NoSampler
    /\ tape = << >>

Sample_begin ==
    /\ sampler.pc = "new"
    /\ \E u \in InitialDraws(sampler.size) :
          sampler' = sample_begin(sampler, u[1], u[2])
    /\ UNCHANGED << rerun, tape >>
    /\ SamplerFrame

Sample_pick ==
    /\ sampler.pc = "loop"
    /\ sampler.active # << >>
    /\ \E u \in IndexDraws : sampler' = sample_pick(sampler, u[1])
    /\ UNCHANGED << rerun, tape >>
    /\ SamplerFrame

Sample_try ==
    /\ sampler.pc = "try"
    /\ sampler.tries < sampler.k
    /\ Len(sampler.samples) < MaxSamples
    /\ \E u \in CandidateDraws(sampler.cell) :
          sampler' = sample_try(sampler, u[1], u[2])
    /\ UNCHANGED << rerun, tape >>
    /\ SamplerFrame

Sample_exhausted ==
    /\ sampler.pc = "try"
    /\ sampler.tries >= sampler.k
    /\ sampler' = sample_exhausted(sampler)
    /\ UNCHANGED << rerun, tape >>
    /\ SamplerFrame

Sample_return ==
    /\ sampler.pc = "loop"
    /\ sampler.active = << >>
    /\ sampler' = sample_return(sampler)
    /\ UNCHANGED << rerun, tape >>
    /\ SamplerFrame

SamplerNext ==
    \/ Sample_begin
    \/ Sample_pick
    \/ Sample_try
    \/ Sample_exhausted
    \/ Sample_return

SamplerSpec == SamplerInit /\ [][SamplerNext]_vars

\* sample() runs on its caller's thread and is never suspended for good.
SamplerLive == SamplerSpec /\ WF_vars(SamplerNext)

\* ------------------------------------------- two runs with the same seed

(***************************************************************************)
(* sample() builds its random stream from self.seed alone (disc.rs:56-57). *)
(* Two runs of samplers with the same fields therefore read the same       *)
(* stream.  The first run decides what the stream yields; tape holds what  *)
(* it has yielded to the first run and not yet to the second.              *)
(***************************************************************************)

ReplaySizes == { << 7, 5 >>, << 4, 4 >> }
ReplayEighths == { 0, 1, 5 }
ReplayKs == { 0, 1 }

\* What the next step of sample() takes from the random stream.
Consumes(s) ==
    CASE s.pc = "new" -> "initial"
      [] s.pc = "loop" /\ s.active # << >> -> "index"
      [] s.pc = "try" /\ s.tries < s.k -> "candidate"
      [] OTHER -> "none"

DrawsFor(s) ==
    CASE Consumes(s) = "initial" -> InitialDraws(s.size)
      [] Consumes(s) = "index" -> IndexDraws
      [] Consumes(s) = "candidate" -> CandidateDraws(s.cell)
      [] OTHER -> { << 0, 0 >> }

ReplayDraws(s) ==
    { u \in DrawsFor(s) : u[1] \in ReplayEighths /\ u[2] \in ReplayEighths }

\* The next step of sample(), given the two numbers it draws.
sample_step(s, u) ==
    CASE s.pc = "new" -> sample_begin(s, u[1], u[2])
      [] s.pc = "loop" /\ s.active # << >> -> sample_pick(s, u[1])
      [] s.pc = "loop" /\ s.active = << >> -> sample_return(s)
      [] s.pc = "try" /\ s.tries < s.k -> sample_try(s, u[1], u[2])
      [] s.pc = "try" /\ s.tries >= s.k -> sample_exhausted(s)
      [] OTHER -> s

Finished(s) == s.pc \in { "done", "panic" }

seed_from_u64_Entropy(s, stream) == ReplayDraws(s)

\* The numbers a stream seeded with the same seed yields next.
seed_from_u64(s, stream) == { Head(stream)[2] }

ReplayInit ==
    /\ TerrainInit
    /\ call = NoCall
    /\ result = NoData
    /\ \E cell \in SamplerCells, size \in ReplaySizes, k \in ReplayKs :
          sampler = NewSampler(cell, size, k)
    /\ rerun = sampler
    /\ tape = << >>

FirstRun ==
    /\ ~Finished(sampler)
    /\ Len(sampler.samples) < MaxSamples
    /\ \E u \in ReplayDraws(sampler) :
          /\ sampler' = sample_step(sampler, u)
          /\ tape' = IF Consumes(sampler) = "none" THEN tape
                     ELSE Append(tape, << Consumes(sampler), u >>)
    /\ UNCHANGED rerun
    /\ SamplerFrame

SecondRun ==
    /\ ~Finished(rerun)
    /\ IF Consumes(rerun) = "none"
       THEN /\ rerun' = sample_step(rerun, << 0, 0 >>)
            /\ UNCHANGED tape
       ELSE /\ tape # << >>
            /\ \E u \in seed_from_u64(rerun, tape) : rerun' = sample_step(rerun, u)
            /\ tape' = Tail(tape)
    /\ UNCHANGED sampler
    /\ SamplerFrame

ReplayNext ==
    \/ FirstRun
    \/ SecondRun

ReplaySpec == ReplayInit /\ [][ReplayNext]_vars

\* ------------------------------------------------------------- properties

CameraChunk == world_pos_to_chunk_coord(camera)
Origin == << 0, 0 >>
Materialised(e) == e \in EntityIds /\ chunkCoord[e] # NoCoord
TilesInstalled(e) == e \in EntityIds /\ tileMapping[e] # NoData
ResourcesInstalled(e) == e \in EntityIds /\ resourceMapping[e] # NoData

\* C1: each chunk coordinate is dispatched to the worker pool at most once
\* for tile generation and at most once for resource generation.
C1_DispatchedAtMostOnce ==
    \A c \in Tracked : tileDispatches[c] <= 1 /\ resourceDispatches[c] <= 1

\* Both generation systems have run again on a chunk whose data is installed.
C1_Witness ==
    \E c \in Tracked :
        /\ tileDispatches[c] = 1 /\ resourceDispatches[c] = 1
        /\ TilesInstalled(chunks[c]) /\ ResourcesInstalled(chunks[c])
        /\ { "gen_tile", "gen_res" } \subseteq ran

C4_SpawnRadiusRegistered ==
    "spawn" \in ran =>
        \A coord \in Tracked :
            ChebyshevDistance(CameraChunk, coord) <= SPAWN_CHUNK_RADIUS
                => contains(coord)

\* The spawn pass has run with the camera in a chunk of negative
\* coordinates and a chunk on the rim of the spawn radius was seen before.
C4_Witness ==
    /\ "spawn" \in ran
    /\ CameraChunk[1] < 0 /\ CameraChunk[2] < 0
    /\ \E coord \in Tracked :
          ChebyshevDistance(CameraChunk, coord) <= SPAWN_CHUNK_RADIUS
    /\ \E coord \in Tracked : contains(coord) /\
          ChebyshevDistance(CameraChunk, coord) > SPAWN_CHUNK_RADIUS

\* C5: once the load and the unload pass of a frame have run, every Visible
\* chunk is within Chebyshev distance LOAD_CHUNK_RADIUS of the camera's
\* chunk.
C5_VisibleWithinLoadRadius ==
    { "load", "unload" } \subseteq ran =>
        /\ \A c \in loaded :
              ChebyshevDistance(CameraChunk, c) <= LOAD_CHUNK_RADIUS
        /\ \A e \in EntityIds : visibility[e] = "Visible" =>
              ChebyshevDistance(CameraChunk, chunkCoord[e]) <= LOAD_CHUNK_RADIUS

\* A chunk that was shown is out of the load radius and Hidden again.
C5_Witness ==
    /\ { "load", "unload" } \subseteq ran
    /\ \E c \in Tracked :
          /\ loadCount[c] > 0
          /\ ChebyshevDistance(CameraChunk, c) > LOAD_CHUNK_RADIUS
          /\ visibility[chunks[c]] = "Hidden"
          /\ c \notin loaded

OneEntityPerCoord ==
    \A c \in Tracked :
        /\ Cardinality({ e \in EntityIds : chunkCoord[e] = c }) <= 1
        /\ Cardinality({ cmd \in commands :
                           cmd.op = "insert_chunk" /\ cmd.arg = c }) <= 1
        /\ \A e \in EntityIds : chunkCoord[e] = c => chunks[c] = e

\* C6: a coordinate of the registry is never created again: its entity
\* never changes and no second chunk entity carries the coordinate.
C6_NoDuplicateChunk ==
    [][ /\ \A c \in Tracked : contains(c) => chunks'[c] = chunks[c]
        /\ OneEntityPerCoord' ]_vars

\* The spawn pass has run again over a chunk created in an earlier frame.
C6_Witness ==
    \E c \in Tracked :
        /\ contains(c) /\ Materialised(chunks[c])
        /\ "spawn" \in ran
        /\ ChebyshevDistance(CameraChunk, c) <= SPAWN_CHUNK_RADIUS

\* C7: a coordinate of the registry stays in the registry.
C7_RegistryOnlyGrows ==
    [][ \A c \in Tracked : contains(c) => contains(c)' ]_vars

\* A chunk is registered, farther than the spawn radius from the camera,
\* and the spawn and unload passes have run.
C7_Witness ==
    \E c \in Tracked :
        /\ contains(c)
        /\ ChebyshevDistance(CameraChunk, c) > SPAWN_CHUNK_RADIUS
        /\ { "spawn", "unload" } \subseteq ran

\* C8: an installed tile array (resource array) is never replaced, removed
\* or generated again.
C8_InstalledDataIsKept ==
    [][ \A e \in EntityIds :
          /\ TilesInstalled(e) =>
                /\ tileMapping'[e] = tileMapping[e]
                /\ tileInstalls'[e] = tileInstalls[e]
                /\ tileTask'[e] = tileTask[e]
                /\ ~computeTile'[e]
          /\ ResourcesInstalled(e) =>
                /\ resourceMapping'[e] = resourceMapping[e]
                /\ resourceInstalls'[e] = resourceInstalls[e]
                /\ resourceTask'[e] = resourceTask[e]
                /\ ~computeResource'[e] ]_vars

\* A chunk with both arrays installed is shown for the second time and the
\* generation systems have run in that frame.
C8_Witness ==
    \E c \in Tracked :
        /\ TilesInstalled(chunks[c]) /\ ResourcesInstalled(chunks[c])
        /\ tileInstalls[chunks[c]] = 1 /\ resourceInstalls[chunks[c]] = 1
        /\ loadCount[c] = 2 /\ c \in loaded
        /\ ran = Systems


OriginReady ==
    /\ contains(Origin)
    /\ TilesInstalled(chunks[Origin]) /\ ResourcesInstalled(chunks[Origin])
    /\ Origin \in loaded
    /\ visibility[chunks[Origin]] = "Visible"

\* C10: with the camera fixed at the world origin, chunk (0,0) eventually is
\* ResourceGenerated and Visible, and stays so.
C10_OriginGeneratedAndVisible == <>[]OriginReady

\* Chunk (0,0) is generated and Visible and a whole frame has run since.
C10_Witness ==
    /\ camera = Origin
    /\ OriginReady
    /\ ran = Systems
    /\ loadCount[Origin] = 1

\* ---------------------------------------------------- claims C11 to C20

Far == << 10, 10 >>

\* C11 as stated: with the camera fixed at the world origin, once the spawn
\* pass has run chunk (10,10) exists in the registry, and it is never
\* Visible.
C11_FarChunkRegisteredNotVisible ==
    /\ "spawn" \in ran => contains(Far)
    /\ Far \notin loaded
    /\ \A e \in EntityIds : chunkCoord[e] = Far => visibility[e] # "Visible"

\* C11 as amended: with the camera fixed at the world origin, chunk (10,10)
\* is at Chebyshev distance 10 > SPAWN_CHUNK_RADIUS of the camera's chunk:
\* it is never in the registry, no entity carries its coordinate, no
\* command creates it, and it is never Visible.
C11_FarChunkNeverRegistered ==
    /\ ~contains(Far)
    /\ Far \notin loaded
    /\ \A e \in EntityIds : chunkCoord[e] # Far
    /\ \A cmd \in commands : cmd.op = "insert_chunk" => cmd.arg # Far

\* The spawn pass has run in a later frame, chunk (0,0) exists and is
\* shown, and chunk (10,10) is not in the registry.
C11_Witness ==
    /\ camera = Origin
    /\ "spawn" \in ran
    /\ contains(Origin) /\ Materialised(chunks[Origin])
    /\ Origin \in loaded
    /\ ChebyshevDistance(CameraChunk, Far) > SPAWN_CHUNK_RADIUS
    /\ ~contains(Far)

\* Where a chunk entity stands in the generation of one kind of data:
\* 0 nothing, 1 pending marker, 2 data installed.
TileStage(e) ==
    IF tileMapping[e] # NoData THEN 2 ELSE IF computeTile[e] THEN 1 ELSE 0
ResourceStage(e) ==
    IF resourceMapping[e] # NoData THEN 2 ELSE IF computeResource[e] THEN 1 ELSE 0

C13_DataDependsOnCoordinateOnly ==
    /\ \A e \in EntityIds :
          /\ TilesInstalled(e) =>
                tileMapping[e] = TerrainGenerate(chunkCoord[e])
          /\ ResourcesInstalled(e) =>
                resourceMapping[e] = ResourceGenerate(chunkCoord[e])
    /\ \A cmd \in commands :
          /\ cmd.op = "install_tile" =>
                cmd.arg = TerrainGenerate(chunkCoord[cmd.e])
          /\ cmd.op = "install_resource" =>
                cmd.arg = ResourceGenerate(chunkCoord[cmd.e])
    /\ \A c \in Tracked : contains(c) /\ Materialised(chunks[c]) =>
          chunkCoord[chunks[c]] = c

\* Both tracked chunks carry both arrays; the second was discovered after
\* a camera move and its resource array was installed before its tile
\* array was (its tile install is in the commands of the running frame).
C13_Witness ==
    /\ \A c \in Tracked : contains(c) /\ ResourcesInstalled(chunks[c])
    /\ TilesInstalled(chunks[Origin])
    /\ ~TilesInstalled(chunks[Far]) /\ InstallTile(chunks[Far])
    /\ tileMapping[chunks[Origin]] # ArgOf("install_tile", chunks[Far])

\* C14: whatever tasks are still running, every pass that has not run in
\* the frame can run, and when all have run the frame can end: no tick
\* waits for a generation task.
C14_TickNeverWaits ==
    /\ "spawn" \notin ran => ENABLED spawn_chunks_around_camera
    /\ "load" \notin ran => ENABLED load_chunks_around_camera
    /\ "unload" \notin ran => ENABLED unload_chunks_outside_camera
    /\ "gen_tile" \notin ran => ENABLED generate_terrain_task
    /\ "handle_tile" \notin ran => ENABLED handle_generate_terrain_task
    /\ "gen_res" \notin ran => ENABLED generate_resource_task
    /\ "handle_res" \notin ran => ENABLED handle_generate_resource_task
    /\ ran = Systems => ENABLED Flush

\* A chunk whose two tasks are still running has been shown, hidden and
\* shown again, and a further frame has run all its passes.
C14_Witness ==
    \E c \in Tracked :
        /\ contains(c)
        /\ tileTask[chunks[c]] = "running" /\ computeTile[chunks[c]]
        /\ resourceTask[chunks[c]] = "running" /\ computeResource[chunks[c]]
        /\ ~TilesInstalled(chunks[c]) /\ ~ResourcesInstalled(chunks[c])
        /\ loadCount[c] = 2
        /\ ran = Systems

TaskFinishes ==
    \E e \in EntityIds :
        \/ tileTask[e] = "running" /\ tileTask'[e] # "running"
        \/ resourceTask[e] = "running" /\ resourceTask'[e] # "running"

ChunkData == << tileMapping, resourceMapping, computeTile, computeResource >>

\* C15: a step in which a worker task finishes changes neither the
\* registry nor any chunk's components (data, pending marker, visibility,
\* coordinate) nor the commands of the frame; a chunk's data and pending
\* markers change only when a frame ends and applies the commands its
\* passes handed over, and data is installed only from a result a merge
\* pass has taken.
C15_WorkerTouchesNoSharedState ==
    [][ /\ TaskFinishes => UNCHANGED << manager, world, commands, ran, camera >>
        /\ ChunkData' # ChunkData => ran = Systems /\ ran' = {}
        /\ \A e \in EntityIds :
              /\ tileMapping'[e] # tileMapping[e] => tileTask[e] = "taken"
              /\ resourceMapping'[e] # resourceMapping[e] =>
                    resourceTask[e] = "taken" ]_vars

\* Both tasks of a shown chunk have finished and neither result is taken
\* yet: the chunk still carries both pending markers and no data.
C15_Witness ==
    \E e \in EntityIds :
        /\ tileTask[e] = "done" /\ resourceTask[e] = "done"
        /\ computeTile[e] /\ computeResource[e]
        /\ ~TilesInstalled(e) /\ ~ResourcesInstalled(e)
        /\ visibility[e] = "Visible"

\* C16 as stated: when the passes of a frame have run, every chunk
\* coordinate within Chebyshev distance LOAD_CHUNK_RADIUS of the camera's
\* chunk is Visible.
C16_LoadRadiusVisible ==
    ran = Systems =>
        \A coord \in Tracked :
            ChebyshevDistance(CameraChunk, coord) <= LOAD_CHUNK_RADIUS =>
                /\ coord \in loaded
                /\ contains(coord)
                /\ visibility[chunks[coord]] = "Visible"

\* C16 as amended: once the load pass of a frame has run, every chunk
\* coordinate within Chebyshev distance LOAD_CHUNK_RADIUS of the camera's
\* chunk whose chunk was created in an earlier frame (its entity carries
\* its components) is Visible; a chunk created in the running frame is
\* Hidden until the load pass of the next frame.
C16_LoadRadiusVisibleOnceSpawned ==
    "load" \in ran =>
        \A coord \in Tracked :
            ( /\ ChebyshevDistance(CameraChunk, coord) <= LOAD_CHUNK_RADIUS
              /\ contains(coord)
              /\ HasVisibility(chunks[coord]) ) =>
                /\ coord \in loaded
                /\ visibility[chunks[coord]] = "Visible"

\* The camera has come back to a chunk that was hidden, and the load pass
\* has shown it again before the unload pass has run.
C16_Witness ==
    \E coord \in Tracked :
        /\ ChebyshevDistance(CameraChunk, coord) <= LOAD_CHUNK_RADIUS
        /\ "load" \in ran /\ "unload" \notin ran
        /\ loadCount[coord] = 2
        /\ visibility[chunks[coord]] = "Visible"
        /\ ~ResourcesInstalled(chunks[coord])

Returned(fn) == call.fn = fn /\ result # NoData

\* floor((p + extent / 2) / extent), on twice the position.
FloorChunkAxis(p) ==
    (2 * p + CHUNK_SIZE * CHUNK_TILE_SIZE) \div (2 * CHUNK_SIZE * CHUNK_TILE_SIZE)

\* C17: for every world position p, world_pos_to_chunk_coord(p) is
\* floor((p + extent/2) / extent) on each axis, so that chunk c covers the
\* half-open interval [c*extent - extent/2, c*extent + extent/2).
C17_ChunkCoordIsFloor ==
    Returned("world_pos_to_chunk_coord") =>
        result = << FloorChunkAxis(call.args[1]), FloorChunkAxis(call.args[2]) >>

\* C18: for every chunk coordinate c, world_pos_to_chunk_coord gives c back
\* for the world position chunk_coord_to_world_pos(c) = c * extent.
C18_ChunkCoordRoundTrip ==
    Returned("chunk_coord_to_world_pos") =>
        /\ result = << call.args[1] * CHUNK_SIZE * CHUNK_TILE_SIZE,
                       call.args[2] * CHUNK_SIZE * CHUNK_TILE_SIZE >>
        /\ world_pos_to_chunk_coord(result) = call.args

\* The world position of a chunk with two negative coordinates was
\* computed.
C18_Witness ==
    /\ Returned("chunk_coord_to_world_pos")
    /\ call.args[1] < 0 /\ call.args[2] = -MaxChunk
    /\ result[1] < 0 /\ result[2] < 0

\* C19: for every world position p, world_pos_to_tile_coord(p) is a tile
\* of the chunk: 0 <= x < chunk_size.x and 0 <= y < chunk_size.y.
C19_TileCoordInRange ==
    Returned("world_pos_to_tile_coord") =>
        /\ 0 <= result[1] /\ result[1] < CHUNK_SIZE
        /\ 0 <= result[2] /\ result[2] < CHUNK_SIZE

\* C20: global and local tile coordinates are mutually inverse: a global
\* coordinate g is given back by tile_coord_to_global_coord from its tile
\* and its chunk, its tile is in range, and a tile t of a chunk c is given
\* back, with c, from its global coordinate.
C20_GlobalLocalInverse ==
    /\ Returned("global_coord_to_tile_coord") =>
          /\ \A i \in 1..2 : 0 <= result[i] /\ result[i] < CHUNK_SIZE
          /\ tile_coord_to_global_coord(
                 result, global_coord_to_chunk_coord(call.args)) = call.args
    /\ Returned("global_coord_to_chunk_coord") =>
          tile_coord_to_global_coord(
              global_coord_to_tile_coord(call.args), result) = call.args
    /\ Returned("tile_coord_to_global_coord") =>
          /\ global_coord_to_tile_coord(result) = call.args[1]
          /\ global_coord_to_chunk_coord(result) = call.args[2]

\* The global coordinate of the first tile of a chunk with negative
\* coordinates was computed; it is negative.
C20_Witness ==
    /\ Returned("tile_coord_to_global_coord")
    /\ call.args[1] = << 0, 0 >>
    /\ call.args[2] = << -MaxChunk, -1 >>
    /\ result[1] < 0 /\ result[2] < 0

\* ---------------------------------------------------- claims C21 to C30

\* C21: for every global tile coordinate g and every chunk size,
\* global_coord_to_tile_coord(g) is on each axis the one tile t in
\* [0, chunk_size) with g + chunk_size/2 = k * chunk_size + t for a whole
\* k: the Euclidean remainder of g + chunk_size/2.
C21_TileCoordIsEuclideanMod ==
    Returned("global_coord_to_tile_coord(size)") =>
        \A i \in 1..2 :
            LET g == call.args[1][i]
                size == call.args[2][i]
            IN  /\ 0 <= result[i] /\ result[i] < size
                /\ \E k \in (-MaxGlobal - 1)..(MaxGlobal + 1) :
                      g + size \div 2 = k * size + result[i]

\* The tests' case: with size (2,2), 8 and -8 both give tile 1.
C21_Witness ==
    /\ Returned("global_coord_to_tile_coord(size)")
    /\ call.args = << << -8, 8 >>, << 2, 2 >> >>
    /\ result = << 1, 1 >>

\* C22: for every world position p and every even chunk size,
\* world_pos_to_global_coord(p) is floor(p / tile_size) on each axis.
C22_GlobalCoordIsFloor ==
    Returned("world_pos_to_global_coord(size)") =>
        \A i \in 1..2 :
            call.args[2][i] % 2 = 0 =>
                result[i] = call.args[1][i] \div call.args[3]

\* The tests' sizes, chunk (2,2) and tile 4, on a position that is a chunk
\* boundary on the negative side on one axis and inside a tile on the other.
C22_Witness ==
    /\ Returned("world_pos_to_global_coord(size)")
    /\ call.args = << << -12, 9 >>, << 2, 2 >>, 4 >>
    /\ result = << -3, 2 >>

\* C23: index_to_tile_coord and tile_coord_to_index are row-major
\* inverses: the index of an in-range tile t is t.y * size.x + t.x, it is
\* in range and gives t back; the tile of an in-range index i is in range
\* and gives i back.
C23_IndexRowMajorInverse ==
    /\ Returned("tile_coord_to_index") =>
          LET t == call.args[1]
              size == call.args[2]
              index == result[2]
          IN  /\ index \in IndicesOf(size)
              /\ index = t[2] * size[1] + t[1]
              /\ \A u \in TilesOf(size) :
                    (u[2] < t[2] \/ (u[2] = t[2] /\ u[1] < t[1]))
                        <=> tile_coord_to_index(u, size) < index
              /\ index_to_tile_coord(index, size) = t
    /\ Returned("index_to_tile_coord") =>
          LET size == call.args[2]
          IN  /\ result \in TilesOf(size)
              /\ tile_coord_to_index(result, size) = call.args[1]

\* The last tile of the first row of a chunk that is wider than high.
C23_Witness ==
    /\ Returned("tile_coord_to_index")
    /\ call.args = << << 2, 0 >>, << 3, 2 >> >>
    /\ result = Usize(2)

\* C24: for every in-range tile t and every chunk size, even or odd,
\* tile_coord_to_world_off(t) is (t - chunk_size/2) * tile_size +
\* tile_size/2 with chunk_size/2 a whole division: twice the offset is
\* (2t - chunk_size + 1) * tile_size for an odd and
\* (2t - chunk_size) * tile_size + tile_size for an even chunk size.
C24_WorldOffFormula ==
    Returned("tile_coord_to_world_off") =>
        \A i \in 1..2 :
            LET t == call.args[1][i]
                size == call.args[2][i]
                tile_size == call.args[3]
            IN  2 * result[i] =
                    (2 * t - size + (size % 2)) * tile_size + tile_size

\* The tests' case, chunk (16,16), tile (12,12), tile size 32: (144,144).
C24_Witness ==
    /\ Returned("tile_coord_to_world_off")
    /\ call.args = << << 12, 12 >>, << 16, 16 >>, 32 >>
    /\ result = << 144, 144 >>

\* C25: in one sampler run every two distinct accepted samples are at least
\* radius apart; the 5x5 block of cells around the candidate's cell is enough
\* to notice every closer sample.
C25_MinimumSeparation ==
    sampler.pc # "idle" =>
        \A i, j \in 1..Len(sampler.samples) :
            i < j => DistSq(sampler.samples[i], sampler.samples[j])
                         >= RadiusSq(sampler.cell)

C27_ActiveListEmpties ==
    <>(sampler.pc = "done" \/ Len(sampler.samples) >= MaxSamples)

\* C28: handle_chunks_resources spawns no tree and no rock on a tile whose
\* kind is Water, whatever the resource mapping holds for that tile.
C28_NoPropsOnWater ==
    Returned("handle_chunks_resources") =>
        \A index \in 1..Len(call.args[2]) :
            call.args[2][index] = "Water" => result[2][index] = "none"

\* A rock on water is skipped while the rock on the barren tile is spawned.
C28_Witness ==
    /\ Returned("handle_chunks_resources")
    /\ call.args = << << "Rock", "Rock" >>, << "Water", "Barren" >> >>
    /\ result[2] = << "none", "rock" >>

\* C29: installing tile data on a chunk that has no pending tile task, or
\* that has tile data already, fails loudly instead of writing the data; and
\* ChunkManager.insert for a registered coordinate fails loudly instead of
\* replacing its entity.
C29_InstallFailsLoudly ==
    /\ (Returned("install_tile_mapping")
            /\ ~(call.args[1] /\ call.args[2] = NoData)) =>
           result[1] = "panic"
    /\ (Returned("ChunkManager::insert")
            /\ call.args[1][call.args[2]] # NoEntity) =>
           result[1] = "panic"

\* Water below t_water, Grass from t_water up to t_grass, Barren from there.
ThresholdKind(noise, t_water, t_grass) ==
    IF noise < t_water THEN "Water"
    ELSE IF noise < t_grass THEN "Grass" ELSE "Barren"

\* C30: tile classification is a total threshold function of the noise value
\* with the two cut points of the code, t_water < t_grass: Water below
\* t_water, Grass in [t_water, t_grass), Barren otherwise.
C30_ThresholdClassification ==
    /\ Returned("TileKind::from_noise") =>
           result = << "kind", ThresholdKind(call.args, 0, 3) >>
    /\ Returned("TerrainGenerator::generate") =>
           result = << "kind", ThresholdKind(call.args, 1, 4) >>

\* C31: during a sampler run every cell index computed for the initial point
\* or an accepted candidate is inside the grid, and no accepted candidate is
\* written into a cell that holds a sample: every sample is the one its own
\* cell records.
C31_OneSamplePerCell ==
    sampler.pc \notin { "idle", "new" } =>
        /\ sampler.pc # "panic"
        /\ \A i \in 1..Len(sampler.samples) :
              LET coord == cell_coord(sampler, sampler.samples[i])
              IN  /\ coord[1] < grid_size(sampler)[1]
                  /\ coord[2] < grid_size(sampler)[2]
                  /\ sampler.grid[cell_index(sampler, coord)] = i - 1

\* C32: every sample of a run, the initial point included, lies inside the
\* area, 0 <= x < size.x and 0 <= y < size.y, and a sample whose active
\* entry was removed stays in the samples.
C32_SamplesInsideArea ==
    /\ [](sampler.pc \notin { "idle", "new" } =>
             \A i \in 1..Len(sampler.samples) :
                 /\ 0 <= sampler.samples[i][1]
                 /\ sampler.samples[i][1] < sampler.size[1]
                 /\ 0 <= sampler.samples[i][2]
                 /\ sampler.samples[i][2] < sampler.size[2])
    /\ [][sampler.pc \notin { "idle", "new" } =>
             /\ Len(sampler'.samples) >= Len(sampler.samples)
             /\ \A i \in 1..Len(sampler.samples) :
                    sampler'.samples[i] = sampler.samples[i]]_vars

\* C33: a chunk never has both a pending generation task and the data that
\* task installs; the step that installs the data is the step that removes
\* the pending task, for tiles and for resources alike.
C33_PendingOrInstalled ==
    /\ [](\A e \in EntityIds :
             /\ ~(computeTile[e] /\ tileMapping[e] # NoData)
             /\ ~(computeResource[e] /\ resourceMapping[e] # NoData))
    /\ [][\A e \in EntityIds :
             /\ (tileMapping[e] = NoData /\ tileMapping'[e] # NoData) =>
                    (computeTile[e] /\ ~computeTile'[e])
             /\ (resourceMapping[e] = NoData /\ resourceMapping'[e] # NoData) =>
                    (computeResource[e] /\ ~computeResource'[e])]_vars

\* A chunk with its tiles installed and its resource task pending, next to
\* a chunk whose resources are installed.
C33_Witness ==
    \E e, f \in EntityIds :
        /\ TileStage(e) = 2 /\ ~computeTile[e] /\ computeResource[e]
        /\ ResourceStage(f) = 2 /\ ~computeResource[f] /\ ~computeTile[f]

\* C34: a coordinate is in ChunkManager.loaded if and only if its chunk
\* entity is Visible; every loaded coordinate is a key of the registry; and a
\* chunk that has just been created is Hidden and not loaded.
C34_LoadedIffVisible ==
    /\ [](/\ \A c \in Tracked :
                c \in loaded <=> (contains(c) /\ visibility[chunks[c]] = "Visible")
           /\ \A e \in EntityIds :
                visibility[e] = "Visible" =>
                    (chunkCoord[e] \in loaded /\ chunks[chunkCoord[e]] = e))
    /\ [][\A e \in EntityIds :
             (visibility[e] = "None" /\ visibility'[e] # "None") =>
                 (visibility'[e] = "Hidden" /\ chunkCoord'[e] \notin loaded')]_vars

\* A chunk that was shown, hidden and shown again is loaded, next to a
\* created chunk that is hidden and not loaded.
C34_Witness ==
    \E c, d \in Tracked :
        /\ c \in loaded /\ visibility[chunks[c]] = "Visible"
        /\ loadCount[c] >= 2
        /\ d \notin loaded /\ contains(d) /\ visibility[chunks[d]] = "Hidden"

\* The round trip of one axis: the world position returned for a global
\* coordinate converts back to it, and a snapped position snaps to itself.
RoundTripsOn(i) ==
    LET size == call.args[2][i]
        tile_size == call.args[3]
    IN  /\ Returned("global_coord_to_world_pos") =>
               world_pos_to_global(result[i], size, tile_size) = call.args[1][i]
        /\ Returned("snap_to_tile") =>
               snap_to_tile(result[i], size, tile_size) = result[i]

\* C35 as stated: for every chunk size, even or odd,
\* world_pos_to_global_coord(global_coord_to_world_pos(g)) = g and
\* snap_to_tile(snap_to_tile(p)) = snap_to_tile(p).
C35_RightInverseEverySize ==
    (Returned("global_coord_to_world_pos") \/ Returned("snap_to_tile")) =>
        \A i \in 1..2 : RoundTripsOn(i)

\* C35 as amended: the same on every axis whose chunk size is even.
C35_RightInverseEvenSize ==
    (Returned("global_coord_to_world_pos") \/ Returned("snap_to_tile")) =>
        \A i \in 1..2 : call.args[2][i] % 2 = 0 => RoundTripsOn(i)

\* A position on the far side of a negative chunk boundary snaps to the
\* centre of its tile: size (2, 2), tile size 4, (-13, 5) -> (-14, 6).
C35_Witness ==
    /\ Returned("snap_to_tile")
    /\ call.args = << << -13, 5 >>, << 2, 2 >>, 4 >>
    /\ result = << -14, 6 >>

\* C36: a chunk's props are spawned at most once, by a command queued
\* only when both its arrays are installed and it has no
\* ChunkHandledResources, which it has from the spawn on; the same for the
\* mesh, TileMapping and ChunkHandledTiles.
C36_PropsSpawnedOnce ==
    \A e \in EntityIds :
        /\ propSpawns[e] <= 1
        /\ meshInserts[e] <= 1
        /\ handledResources[e] <=> propSpawns[e] = 1
        /\ handledTiles[e] <=> meshInserts[e] = 1
        /\ Has("spawn_props", e) =>
               /\ tileMapping[e] # NoData
               /\ resourceMapping[e] # NoData
               /\ ~handledResources[e]
               /\ ArgOf("spawn_props", e) = << tileMapping[e], resourceMapping[e] >>
        /\ Has("insert_mesh", e) =>
               tileMapping[e] # NoData /\ ~handledTiles[e]

\* Both systems have run again in a schedule after the one that dressed the
\* chunk, and have queued nothing for it.
C36_Witness ==
    \E e \in EntityIds :
        /\ propSpawns[e] = 1
        /\ meshInserts[e] = 1
        /\ { "chunks_tiles", "chunks_resources" } \subseteq ran
        /\ ~Has("spawn_props", e)
        /\ ~Has("insert_mesh", e)

\* C37 as stated: handle_building_tool subtracts BUILDING_COST, or fails
\* the overflow check of the subtraction, only in a state where the count is
\* at least BUILDING_COST.
C37_NeverUnderflows ==
    [][ (buildings' # buildings \/ buildPc' # buildPc) =>
            UGe(resourceCount, buildingCost) ]_vars

\* C38 as stated: the actions of a waypoint are executed at most once, and
\* between two schedules every waypoint the unit has reached has had its
\* actions executed or has them in the unit's UnitWaypointActions.
C38_ActionsExactlyOnce ==
    \A w \in 1..MaxRoute :
        /\ executed[w] <= 1
        /\ (ran = {} /\ unitAlive /\ w <= reached) =>
               executed[w] = 1 \/ unitActions.id = w

====
